---- MODULE Spec2Model ----
\* Model of sdnotify/__init__.py: class SystemdNotifier (the systemd
\* notification client), its constructor, notify() and the eleven helpers.
\*
\* Text is modelled as a sequence of one-character strings, bytes as a sequence
\* of byte tokens (an ASCII byte is written as its character, NUL as "NUL", a
\* non-ASCII byte as its hex name).  An optional string (a value that may be
\* Python's None) is a record [present, chars].
EXTENDS Integers, Sequences, FiniteSets, TLC

VARIABLES
    environ,        \* os.environ, restricted to the key NOTIFY_SOCKET
    phase,          \* "start" | "constructed" | "raised" (__init__ raised)
    debug,          \* self.debug
    sock,           \* self.sock: "None" | "unconnected" | "connected" (socket handle state)
    socket_path,    \* self.socket_path (optional string)
    socket,         \* the attribute self.socket: "unset" | "None"
    sockets,        \* number of socket.socket() objects created so far
    connects,       \* the arguments of the connect() calls made so far
    exc,            \* exception that left the most recent operation, or "none"
    helper,         \* name of the most recent call made by the sequential caller
    argInt,         \* its integer argument (0 when it has none)
    argText,        \* its text argument (<<>> when it has none)
    msg,            \* the message that call handed to notify()
    attempts,       \* number of sendall() calls that call made
    sendall,        \* outcome of its sendall(): "not called" | "ok" | "failed"
    delivered,      \* datagrams put on the channel by the most recent call / sendall
    tpc,            \* per thread: "idle" | "notify" | "sendall"
    tmsg            \* per thread: the message of the call in progress

vars == <<environ, phase, debug, sock, socket_path, socket, sockets, connects,
          exc, helper, argInt, argText, msg, attempts, sendall, delivered,
          tpc, tmsg>>

fields == <<debug, sock, socket_path, socket>>
kernel == <<sockets, connects>>
lastCall == <<helper, argInt, argText, msg, attempts, sendall>>
threads == <<tpc, tmsg>>

----------------------------------------------------------------------------
\* Bounds

MaxAddrLen == 2       \* longest NOTIFY_SOCKET value tried
MaxArg == 12          \* magnitude of the integer arguments tried
MaxClockNs == 12345   \* largest monotonic clock reading tried (ns)
NumThreads == 2       \* concurrent callers in SpecConc

NUL == "NUL"
LF == "\n"

AddrChars == {"/", "@", "a"}
Addresses == UNION {[1..k -> AddrChars] : k \in 0..MaxAddrLen}
IntArgs == {-MaxArg, 0, MaxArg}
ClockReadings == {999, MaxClockNs}
Completed50 == <<"C","o","m","p","l","e","t","e","d"," ","5","0","%">>
StatusTexts == {<<>>, Completed50, <<"e_acute", LF>>}
RawMessages == {<<>>, <<"X","=","1">>}
Threads == 1..NumThreads

----------------------------------------------------------------------------
\* Values

None == [present |-> FALSE, chars |-> <<>>]
Some(s) == [present |-> TRUE, chars |-> s]

\* Mutant of EnvironGet: falls back to a default socket path when the key is unset.
EnvironGet_default(env, key) ==
    IF key \in DOMAIN env THEN Some(env[key]) ELSE Some(<<"/", "r", "u", "n">>)

\* os.environ.get(key): the value, or None when the key is not set.
EnvironGet(env, key) == IF key \in DOMAIN env THEN Some(env[key]) ELSE None

\* Truth value of an optional string: None and "" are false.
Truthy(p) == p.present /\ Len(p.chars) > 0

\* self.socket_path[0] not in ("/", "@")
UnsupportedKind(p) == p.chars[1] \notin {"/", "@"}

\* Mutant of ResolveAddress: replaces every "@", as str.replace("@", "\0") would.
ResolveAddress_replaceAll(p) ==
    IF p.chars[1] = "@"
    THEN Some([i \in 1..Len(p.chars) |-> IF p.chars[i] = "@" THEN NUL ELSE p.chars[i]])
    ELSE p

\* if self.socket_path[0] == "@": self.socket_path = "\0" + self.socket_path[1:]
ResolveAddress(p) ==
    IF p.chars[1] = "@" THEN Some(<<NUL>> \o Tail(p.chars)) ELSE p

----------------------------------------------------------------------------
\* SystemdNotifier.__init__(debug)
\*
\* socketOK and connectOK are the environment's answers to socket.socket() and
\* to sock.connect().  The result is the object's fields, what the kernel saw
\* and the exception that leaves the constructor, if any.

ConstructResult(env, dbg, socketOK, connectOK) ==
    LET path == EnvironGet(env, "NOTIFY_SOCKET")
        base == [phase |-> "constructed", debug |-> dbg, sock |-> "None",
                 socket_path |-> path, socket |-> "unset",
                 sockets |-> 0, connects |-> <<>>, exc |-> "none"]
    IN  IF ~Truthy(path) THEN base
        ELSE IF UnsupportedKind(path)
        THEN \* raise OSError(errno.EAFNOSUPPORT, ...), whatever debug is
             [base EXCEPT !.phase = "raised", !.exc = "OSError(EAFNOSUPPORT)"]
        ELSE LET target == ResolveAddress(path) IN
             IF ~socketOK
             THEN \* socket.socket() raises outside any try block
                  [base EXCEPT !.phase = "raised", !.exc = "OSError(socket)",
                               !.socket_path = target]
             ELSE IF connectOK
             THEN [base EXCEPT !.sock = "connected", !.socket_path = target,
                               !.sockets = 1, !.connects = <<target.chars>>]
             ELSE \* except Exception: self.socket = None; self.sock keeps the handle
                  [base EXCEPT !.sock = "unconnected", !.socket_path = target,
                               !.socket = "None",
                               !.sockets = 1, !.connects = <<target.chars>>,
                               !.phase = IF dbg THEN "raised" ELSE "constructed",
                               !.exc = IF dbg THEN "OSError(connect)" ELSE "none"]

Construct ==
    /\ phase = "start"
    /\ \E dbg \in BOOLEAN, socketOK \in BOOLEAN, connectOK \in BOOLEAN :
         LET r == ConstructResult(environ, dbg, socketOK, connectOK) IN
           /\ phase' = r.phase
           /\ debug' = r.debug
           /\ sock' = r.sock
           /\ socket_path' = r.socket_path
           /\ socket' = r.socket
           /\ sockets' = r.sockets
           /\ connects' = r.connects
           /\ exc' = r.exc
    /\ UNCHANGED <<environ, lastCall, delivered, threads>>

----------------------------------------------------------------------------
\* Message assembly

\* str.encode(): UTF-8.  An ASCII character is one byte, written as itself;
\* U+00E9 is the two bytes C3 A9.
Utf8Char(c) == IF c = "e_acute" THEN <<"0xC3", "0xA9">> ELSE <<c>>

RECURSIVE Utf8(_)
Utf8(text) == IF text = <<>> THEN <<>> ELSE Utf8Char(Head(text)) \o Utf8(Tail(text))

Digit(d) == <<"0","1","2","3","4","5","6","7","8","9">>[d + 1]

\* Mutant of ToDec: loses the sign of a negative number.
RECURSIVE ToDec_unsigned(_)
ToDec_unsigned(n) ==
    IF n < 0 THEN ToDec_unsigned(-n)
    ELSE IF n < 10 THEN <<Digit(n)>>
    ELSE ToDec_unsigned(n \div 10) \o <<Digit(n % 10)>>

\* f"{n}" for an int: decimal, "-" in front of a negative number
RECURSIVE ToDec(_)
ToDec(n) ==
    IF n < 0 THEN <<"-">> \o ToDec(-n)
    ELSE IF n < 10 THEN <<Digit(n)>>
    ELSE ToDec(n \div 10) \o <<Digit(n % 10)>>

ReadyMsg == <<"R","E","A","D","Y","=","1">>
StoppingMsg == <<"S","T","O","P","P","I","N","G","=","1">>
WdPingMsg == <<"W","A","T","C","H","D","O","G","=","1">>
WdTriggerMsg == <<"W","A","T","C","H","D","O","G","=","t","r","i","g","g","e","r">>

\* microsecs = time.clock_gettime_ns(time.CLOCK_MONOTONIC) // 1000
ReloadingMsg(clock_ns) ==
    Utf8(<<"R","E","L","O","A","D","I","N","G","=","1", LF,
           "M","O","N","O","T","O","N","I","C","_","U","S","E","C","=">>
         \o ToDec(clock_ns \div 1000))

StatusMsg(message) == Utf8(<<"S","T","A","T","U","S","=">> \o message)
ErrnoMsg(errno) == Utf8(<<"E","R","R","N","O","=">> \o ToDec(errno))
ExitStatusMsg(exit_code) ==
    Utf8(<<"E","X","I","T","_","S","T","A","T","U","S","=">> \o ToDec(exit_code))
MainpidMsg(pid) == Utf8(<<"M","A","I","N","P","I","D","=">> \o ToDec(pid))
WdUsecMsg(usec) ==
    Utf8(<<"W","A","T","C","H","D","O","G","_","U","S","E","C","=">> \o ToDec(usec))
ExtendTimeoutMsg(usec) ==
    Utf8(<<"E","X","T","E","N","D","_","T","I","M","E","O","U","T","_",
           "U","S","E","C","=">> \o ToDec(usec))

----------------------------------------------------------------------------
\* SystemdNotifier.notify(message)

\* Mutant of MessageMissing: the emptiness test is left out.
MessageMissing_never(message) == FALSE

\* `not message`
MessageMissing(message) == Len(message) = 0

\* `not self.sock`: None is false, a socket object (connected or not) is true
SockMissing(sk) == sk = "None"

\* Mutant of DebugReraise: the handler re-raises whatever debug is.
DebugReraise_always(dbg) == TRUE

\* `if self.debug: raise` in the handler around sendall()
DebugReraise(dbg) == dbg

\* Mutant of SendallDatagrams: one datagram per KEY=VALUE line.
RECURSIVE SendallDatagrams_perLine(_)
SendallDatagrams_perLine(message) ==
    IF \E i \in 1..Len(message) : message[i] = LF
    THEN LET i == CHOOSE j \in 1..Len(message) :
                    message[j] = LF /\ \A k \in 1..(j - 1) : message[k] # LF
         IN  <<SubSeq(message, 1, i - 1)>>
             \o SendallDatagrams_perLine(SubSeq(message, i + 1, Len(message)))
    ELSE <<message>>

\* sendall() on a SOCK_DGRAM socket: the whole buffer is one datagram
SendallDatagrams(message) == <<message>>

\* The kernel accepts the datagram only on a connected socket, and then only
\* if the peer can take it (sendOK is the environment's answer).
SendSucceeds(sk, sendOK) == sk = "connected" /\ sendOK

NotifyResult(message, sk, dbg, sendOK) ==
    IF MessageMissing(message)
    THEN [exc |-> "ValueError", attempts |-> 0, sendall |-> "not called",
          datagrams |-> <<>>]
    ELSE IF SockMissing(sk)
    THEN [exc |-> "none", attempts |-> 0, sendall |-> "not called",
          datagrams |-> <<>>]
    ELSE IF SendSucceeds(sk, sendOK)
    THEN [exc |-> "none", attempts |-> 1, sendall |-> "ok",
          datagrams |-> SendallDatagrams(message)]
    ELSE [exc |-> IF DebugReraise(dbg) THEN "OSError(sendall)" ELSE "none",
          attempts |-> 1, sendall |-> "failed", datagrams |-> <<>>]

\* What one complete call leaves to observe: which helper ran with which
\* argument, the message it handed to notify() and notify()'s result.
CallEffect(h, ai, at, message, sendOK) ==
    LET r == NotifyResult(message, sock, debug, sendOK) IN
      /\ helper' = h
      /\ argInt' = ai
      /\ argText' = at
      /\ msg' = message
      /\ exc' = r.exc
      /\ attempts' = r.attempts
      /\ sendall' = r.sendall
      /\ delivered' = r.datagrams

\* Mutant of Call: a failed sendall() drops the connection (self.sock = None).
Call_dropsSock(h, ai, at, message) ==
    /\ phase = "constructed"
    /\ \E sendOK \in BOOLEAN : CallEffect(h, ai, at, message, sendOK)
    /\ sock' = IF sendall' = "failed" THEN "None" ELSE sock
    /\ UNCHANGED <<environ, phase, debug, socket_path, socket, kernel, threads>>

\* One call by the sequential caller, from entry to return or raise.  notify()
\* and the helpers assign no attribute of self.
Call(h, ai, at, message) ==
    /\ phase = "constructed"
    /\ \E sendOK \in BOOLEAN : CallEffect(h, ai, at, message, sendOK)
    /\ UNCHANGED <<environ, phase, fields, kernel, threads>>

Notify == \E m \in RawMessages : Call("notify", 0, <<>>, m)
Ready == Call("ready", 0, <<>>, ReadyMsg)
Reloading == \E ns \in ClockReadings : Call("reloading", ns, <<>>, ReloadingMsg(ns))
Stopping == Call("stopping", 0, <<>>, StoppingMsg)
Status == \E text \in StatusTexts : Call("status", 0, text, StatusMsg(text))
Errno == \E n \in IntArgs : Call("errno", n, <<>>, ErrnoMsg(n))
ExitStatus == \E n \in IntArgs : Call("exit_status", n, <<>>, ExitStatusMsg(n))
Mainpid == \E n \in IntArgs : Call("mainpid", n, <<>>, MainpidMsg(n))
WdPing == Call("wd_ping", 0, <<>>, WdPingMsg)
WdTrigger == Call("wd_trigger", 0, <<>>, WdTriggerMsg)
WdUsec == \E n \in IntArgs : Call("wd_usec", n, <<>>, WdUsecMsg(n))
ExtendTimeout == \E n \in IntArgs : Call("extend_timeout", n, <<>>, ExtendTimeoutMsg(n))

----------------------------------------------------------------------------
\* The sequential client: one caller constructs the notifier and then calls
\* notify() and the helpers, one call after the other.

NoEnviron == [k \in {} |-> <<>>]
Environs == {NoEnviron} \cup {[k \in {"NOTIFY_SOCKET"} |-> a] : a \in Addresses}

Idle ==
    /\ helper = "none" /\ argInt = 0 /\ argText = <<>> /\ msg = <<>>
    /\ attempts = 0 /\ sendall = "not called" /\ delivered = <<>>
    /\ tpc = [t \in Threads |-> "idle"]
    /\ tmsg = [t \in Threads |-> <<>>]

Init ==
    /\ environ \in Environs
    /\ phase = "start"
    /\ debug = FALSE
    /\ sock = "None"
    /\ socket_path = None
    /\ socket = "unset"
    /\ sockets = 0
    /\ connects = <<>>
    /\ exc = "none"
    /\ Idle

Next ==
    \/ Construct
    \/ Notify
    \/ Ready
    \/ Reloading
    \/ Stopping
    \/ Status
    \/ Errno
    \/ ExitStatus
    \/ Mainpid
    \/ WdPing
    \/ WdTrigger
    \/ WdUsec
    \/ ExtendTimeout

Spec == Init /\ [][Next]_vars

----------------------------------------------------------------------------
\* Concurrent callers: several threads call notify() and the helpers on one
\* constructed notifier.  A call is three steps: the helper assembles its
\* message and enters notify(); notify() tests the message and self.sock; the
\* thread makes the sendall() system call.  Steps of different threads
\* interleave freely.  `delivered` holds the datagrams of the latest sendall().

ConcInts == {-MaxArg}
ConcClock == {MaxClockNs}
ConcTexts == {Completed50}

Begin(t, message) ==
    /\ tpc[t] = "idle"
    /\ tpc' = [tpc EXCEPT ![t] = "notify"]
    /\ tmsg' = [tmsg EXCEPT ![t] = message]
    /\ UNCHANGED <<environ, phase, fields, kernel, exc, lastCall, delivered>>

T_Notify(t) == \E m \in RawMessages : Begin(t, m)
T_Ready(t) == Begin(t, ReadyMsg)
T_Reloading(t) == \E ns \in ConcClock : Begin(t, ReloadingMsg(ns))
T_Stopping(t) == Begin(t, StoppingMsg)
T_Status(t) == \E text \in ConcTexts : Begin(t, StatusMsg(text))
T_Errno(t) == \E n \in ConcInts : Begin(t, ErrnoMsg(n))
T_ExitStatus(t) == \E n \in ConcInts : Begin(t, ExitStatusMsg(n))
T_Mainpid(t) == \E n \in ConcInts : Begin(t, MainpidMsg(n))
T_WdPing(t) == Begin(t, WdPingMsg)
T_WdTrigger(t) == Begin(t, WdTriggerMsg)
T_WdUsec(t) == \E n \in ConcInts : Begin(t, WdUsecMsg(n))
T_ExtendTimeout(t) == \E n \in ConcInts : Begin(t, ExtendTimeoutMsg(n))

\* notify() up to the sendall() call: raise, return, or go on to send
T_NotifyEnter(t) ==
    /\ tpc[t] = "notify"
    /\ LET r == NotifyResult(tmsg[t], sock, debug, TRUE) IN
         IF r.attempts = 0
         THEN /\ exc' = r.exc
              /\ tpc' = [tpc EXCEPT ![t] = "idle"]
              /\ tmsg' = [tmsg EXCEPT ![t] = <<>>]
         ELSE /\ tpc' = [tpc EXCEPT ![t] = "sendall"]
              /\ UNCHANGED <<exc, tmsg>>
    /\ UNCHANGED <<environ, phase, fields, kernel, lastCall, delivered>>

\* self.sock.sendall(message) and the handler around it
T_Sendall(t) ==
    /\ tpc[t] = "sendall"
    /\ \E sendOK \in BOOLEAN :
         LET r == NotifyResult(tmsg[t], sock, debug, sendOK) IN
           /\ exc' = r.exc
           /\ delivered' = r.datagrams
    /\ tpc' = [tpc EXCEPT ![t] = "idle"]
    /\ tmsg' = [tmsg EXCEPT ![t] = <<>>]
    /\ UNCHANGED <<environ, phase, fields, kernel, lastCall>>

\* The notifier as its constructor left it, for NOTIFY_SOCKET unset or "/a".
ConcEnvirons == {NoEnviron, [k \in {"NOTIFY_SOCKET"} |-> <<"/", "a">>]}

InitConc ==
    /\ environ \in ConcEnvirons
    /\ \E dbg \in BOOLEAN, socketOK \in BOOLEAN, connectOK \in BOOLEAN :
         LET r == ConstructResult(environ, dbg, socketOK, connectOK) IN
           /\ r.phase = "constructed"
           /\ phase = r.phase
           /\ debug = r.debug
           /\ sock = r.sock
           /\ socket_path = r.socket_path
           /\ socket = r.socket
           /\ sockets = r.sockets
           /\ connects = r.connects
           /\ exc = r.exc
    /\ Idle

NextConc ==
    \E t \in Threads :
        \/ T_Notify(t)
        \/ T_Ready(t)
        \/ T_Reloading(t)
        \/ T_Stopping(t)
        \/ T_Status(t)
        \/ T_Errno(t)
        \/ T_ExitStatus(t)
        \/ T_Mainpid(t)
        \/ T_WdPing(t)
        \/ T_WdTrigger(t)
        \/ T_WdUsec(t)
        \/ T_ExtendTimeout(t)
        \/ T_NotifyEnter(t)
        \/ T_Sendall(t)

SpecConc == InitConc /\ [][NextConc]_vars

----------------------------------------------------------------------------
\* Vocabulary of the properties

\* The NOTIFY_SOCKET value the constructor was given
AddressSupplied == "NOTIFY_SOCKET" \in DOMAIN environ /\ environ["NOTIFY_SOCKET"] # <<>>
Address == environ["NOTIFY_SOCKET"]
WellFormedAddress == AddressSupplied /\ Address[1] \in {"/", "@"}

HelperCall == helper \notin {"none", "notify"}

HasPrefix(m, k) == Len(m) >= Len(k) /\ SubSeq(m, 1, Len(k)) = k
Rest(m, k) == SubSeq(m, Len(k) + 1, Len(m))

IsDigit(c) == c \in {"0","1","2","3","4","5","6","7","8","9"}
DigitValue(c) ==
    CASE c = "0" -> 0 [] c = "1" -> 1 [] c = "2" -> 2 [] c = "3" -> 3 [] c = "4" -> 4
      [] c = "5" -> 5 [] c = "6" -> 6 [] c = "7" -> 7 [] c = "8" -> 8 [] c = "9" -> 9

RECURSIVE NatValue(_)
NatValue(s) ==
    IF s = <<>> THEN 0
    ELSE 10 * NatValue(SubSeq(s, 1, Len(s) - 1)) + DigitValue(s[Len(s)])

\* s is digits only, without a leading zero unless it is "0"
IsNumeral(s) ==
    /\ s # <<>>
    /\ \A i \in 1..Len(s) : IsDigit(s[i])
    /\ Len(s) > 1 => s[1] # "0"

\* s is the decimal text of the integer n
IsDecimalOf(s, n) ==
    IF n < 0
    THEN s # <<>> /\ s[1] = "-" /\ IsNumeral(Tail(s)) /\ NatValue(Tail(s)) = -n
    ELSE IsNumeral(s) /\ NatValue(s) = n

LineFeeds(m) == Cardinality({i \in 1..Len(m) : m[i] = LF})
IsAscii(text) == \A i \in 1..Len(text) : text[i] # "e_acute"

\* The KEY= part of each helper's row in the table of notification messages
KeyOf(h) ==
    CASE h = "reloading" -> <<"R","E","L","O","A","D","I","N","G","=","1", LF,
                              "M","O","N","O","T","O","N","I","C","_","U","S","E","C","=">>
      [] h = "status" -> <<"S","T","A","T","U","S","=">>
      [] h = "errno" -> <<"E","R","R","N","O","=">>
      [] h = "exit_status" -> <<"E","X","I","T","_","S","T","A","T","U","S","=">>
      [] h = "mainpid" -> <<"M","A","I","N","P","I","D","=">>
      [] h = "wd_usec" -> <<"W","A","T","C","H","D","O","G","_","U","S","E","C","=">>
      [] h = "extend_timeout" -> <<"E","X","T","E","N","D","_","T","I","M","E","O","U","T",
                                   "_","U","S","E","C","=">>

NumericHelpers == {"errno", "exit_status", "mainpid", "wd_usec", "extend_timeout"}

\* m is the payload of helper h called with integer argument ai / text argument at
IsPayloadOf(m, h, ai, at) ==
    CASE h = "ready" -> m = <<"R","E","A","D","Y","=","1">>
      [] h = "stopping" -> m = <<"S","T","O","P","P","I","N","G","=","1">>
      [] h = "wd_ping" -> m = <<"W","A","T","C","H","D","O","G","=","1">>
      [] h = "wd_trigger" ->
           m = <<"W","A","T","C","H","D","O","G","=","t","r","i","g","g","e","r">>
      [] h = "reloading" ->
           /\ HasPrefix(m, KeyOf(h))
           /\ IsNumeral(Rest(m, KeyOf(h)))
           /\ LET usec == NatValue(Rest(m, KeyOf(h)))
              IN  1000 * usec <= ai /\ ai < 1000 * (usec + 1)
      [] h = "status" ->
           /\ HasPrefix(m, KeyOf(h))
           /\ IsAscii(at) => m = KeyOf(h) \o at
      [] h \in NumericHelpers ->
           /\ HasPrefix(m, KeyOf(h))
           /\ IsDecimalOf(Rest(m, KeyOf(h)), ai)

\* m is a whole message of some helper: a complete row of the table
IsWholeMessage(m) ==
    \/ \E h \in {"ready", "stopping", "wd_ping", "wd_trigger"} : IsPayloadOf(m, h, 0, <<>>)
    \/ HasPrefix(m, KeyOf("reloading")) /\ IsNumeral(Rest(m, KeyOf("reloading")))
    \/ HasPrefix(m, KeyOf("status"))
    \/ \E h \in NumericHelpers :
         /\ HasPrefix(m, KeyOf(h))
         /\ LET v == Rest(m, KeyOf(h))
            IN  IsNumeral(v) \/ (v # <<>> /\ v[1] = "-" /\ IsNumeral(Tail(v)))

----------------------------------------------------------------------------
\* Properties

\* C1: for a supplied address whose first character is neither "/" nor "@",
\* construction with debug=true raises the unsupported-address error, and
\* construction with debug=false raises nothing and leaves the client
\* unconnected (connection absent).
C1_UnsupportedAddressPolicy ==
    (phase # "start" /\ AddressSupplied /\ Address[1] \notin {"/", "@"}) =>
        IF debug
        THEN phase = "raised" /\ exc = "OSError(EAFNOSUPPORT)"
        ELSE phase = "constructed" /\ exc = "none" /\ sock = "None"

\* C2: for a well-formed address, when socket creation or the connect fails
\* during construction: with debug=true the error propagates; with debug=false
\* construction returns normally and the connection is absent (no leftover
\* socket handle).
C2_ConnectFailurePolicy ==
    (phase # "start" /\ WellFormedAddress /\ sock # "connected") =>
        IF debug
        THEN phase = "raised" /\ exc \in {"OSError(socket)", "OSError(connect)"}
        ELSE phase = "constructed" /\ sock = "None"

C4_NoAddressNoConnection ==
    (phase # "start" /\ ~AddressSupplied) =>
        /\ phase = "constructed"
        /\ sockets = 0
        /\ connects = <<>>
        /\ sock = "None"

C4_Witness ==
    /\ "NOTIFY_SOCKET" \notin DOMAIN environ
    /\ phase = "constructed" /\ debug
    /\ helper = "reloading" /\ sock = "None"

\* C5: on a client whose construction completed without establishing a
\* connection, every helper call returns without raising and without
\* attempting a send on a socket.
C5_UnconnectedHelpersAreNoOps ==
    (phase = "constructed" /\ sock # "connected" /\ HelperCall) =>
        /\ exc = "none"
        /\ attempts = 0
        /\ sendall = "not called"
        /\ delivered = <<>>

\* C6: when a send on a connected client fails, the error reaches the caller
\* if and only if debug is true; either way the call made exactly one send
\* attempt and put nothing on the channel.
C6_SendFailurePolicy ==
    (sock = "connected" /\ sendall = "failed") =>
        /\ (exc = "OSError(sendall)") <=> debug
        /\ exc \in {"OSError(sendall)", "none"}
        /\ attempts = 1
        /\ delivered = <<>>

C6_Witness ==
    /\ sock = "connected" /\ sendall = "failed" /\ ~debug
    /\ exc = "none" /\ HelperCall

\* C7: after construction no call changes debug, the resolved address or the
\* connection handle, whether the call succeeds, fails or is a no-op; no
\* socket is created and no connect is made after construction.
C7_CallsChangeNoField ==
    [][phase = "constructed" =>
          /\ phase' = "constructed"
          /\ UNCHANGED <<debug, sock, socket_path, sockets, connects>>]_vars

C7_Witness ==
    /\ phase = "constructed" /\ sock = "connected"
    /\ sendall = "failed" /\ exc = "OSError(sendall)"

\* C8: every call in progress holds one whole, already assembled message, and
\* the sendall() step of a call puts on the channel either nothing (the send
\* failed) or exactly one datagram that is that call's whole message,
\* whatever the other threads are doing.
C8_OneWholeDatagramPerCall ==
    /\ [](\A t \in Threads :
            tpc[t] = "sendall" => IsWholeMessage(tmsg[t]) \/ tmsg[t] \in RawMessages)
    /\ [][\A t \in Threads :
            (tpc[t] = "sendall" /\ tpc'[t] = "idle") =>
                /\ delivered' \in {<<>>, <<tmsg[t]>>}
                /\ \A i \in 1..Len(delivered') :
                      IsWholeMessage(delivered'[i]) \/ delivered'[i] \in RawMessages]_vars

C8_Witness ==
    /\ Len(delivered) = 1
    /\ LineFeeds(delivered[1]) = 1
    /\ \E t \in Threads : tpc[t] = "sendall" /\ tmsg[t] # delivered[1]

\* C9: for an address beginning with "@" the connect target is one NUL byte
\* followed by the remaining characters unchanged (later "@" are kept); for
\* an address beginning with "/" it is the address unchanged.
C9_AddressResolution ==
    (phase # "start" /\ WellFormedAddress) =>
        /\ socket_path.present
        /\ Len(socket_path.chars) = Len(Address)
        /\ \A i \in 2..Len(Address) : socket_path.chars[i] = Address[i]
        /\ Address[1] = "@" => socket_path.chars[1] = NUL
        /\ Address[1] = "/" => socket_path.chars = Address
        /\ \A i \in 1..Len(connects) : connects[i] = socket_path.chars

C9_Witness ==
    /\ AddressSupplied /\ Len(Address) >= 2
    /\ Address[1] = "@" /\ Address[2] = "@"
    /\ sock = "connected"

\* C10: every helper hands notify() a non-empty payload that is exactly the
\* KEY=VALUE text of its row: one line feed between the two pairs of
\* reloading and none elsewhere, no trailing separator, never READY=0, and
\* integer arguments in decimal unchanged, zero and negative included; when
\* the send succeeds that payload is the datagram.
C10_HelperPayloads ==
    HelperCall =>
        /\ IsPayloadOf(msg, helper, argInt, argText)
        /\ msg # <<>>
        /\ msg # <<"R","E","A","D","Y","=","0">>
        /\ helper # "status" =>
              /\ msg[Len(msg)] # LF
              /\ LineFeeds(msg) = IF helper = "reloading" THEN 1 ELSE 0
        /\ sendall = "ok" => delivered = <<msg>>

C10_Witness ==
    /\ helper = "extend_timeout" /\ argInt < -9
    /\ sendall = "ok" /\ delivered = <<msg>>

====
